---- MODULE Spec2Model ----
(***************************************************************************)
(* Presence-tracking cache of backend/playercount.js and the places of     *)
(* backend/server.js that use it.                                          *)
(*                                                                         *)
(* JavaScript runs one callback at a time, so every action below is one    *)
(* synchronous segment of the code: from a call or a promise settling up   *)
(* to the next await (or the return).                                      *)
(***************************************************************************)
EXTENDS Integers, Sequences, FiniteSets, TLC

\* ------------------------------------------------------------------ bounds
MaxInit == 2     \* init() calls in one run; connection i is the one init i creates
MaxStop == 2     \* stop() calls in one run
MaxReady == 2    \* 'ready' notifications delivered in one run
MaxId == 1       \* distinct user ids the gateway reports on in Spec
MaxGuild == 1    \* member records guild.members.cache holds when seeding reads it
MaxMembers == 102  \* largest cache SpecSummary queries (above the endpoint's limit)
MaxOps == 3      \* length of the event sequences SpecReplay replays
MaxReplayId == 2 \* distinct user ids in the events SpecReplay replays
MaxReq == 3      \* requests on /api/blogs in one run of SpecBlogs

Ids == 1..MaxId
ReplayIds == 1..MaxReplayId
InitIds == 1..MaxInit
StopIds == 1..MaxStop
HandlerIds == 1..MaxReady
ReqIds == 1..MaxReq

\* ------------------------------------------------------- values of the code
Null == 0                      \* client = null
NoUser == 0                    \* newPresence?.user is undefined / m.user is null
NoStatus == "undefined"        \* a presence without a status
NoPresence == "null"           \* m.presence is null
Undefined == "undefined"

\* the literal ['online', 'idle', 'dnd'] of the seeding pass
SeedStatuses == {"online", "idle", "dnd"}
\* slip: the list of the presenceUpdate handler has drifted from the seeding one
UpdateStatusesDrifted == {"online", "idle"}
\* the literal ['online', 'idle', 'dnd'] of the presenceUpdate handler
UpdateStatuses == {"online", "idle", "dnd"}

\* cacheThreshold = 2000
DefaultCacheThreshold == 2000
\* getSummary({ limit = 100 }) and getSummary({ limit: 100 }) of the endpoint
DefaultLimit == 100

Min(a, b) == IF a < b THEN a ELSE b
Max(a, b) == IF a > b THEN a ELSE b

\* JavaScript truthiness of a status value
Truthy(s) == s # NoStatus /\ s # ""

\* ------------------------------------------------- Map (insertion ordered)
\* A Map is the sequence of its entries [k, v] in iteration order.
MapHas(m, k) == \E i \in 1..Len(m) : m[i].k = k
MapIndex(m, k) == CHOOSE i \in 1..Len(m) : m[i].k = k
\* slip: entries are pushed, as onto an array
MapSetPushes(m, k, v) == Append(m, [k |-> k, v |-> v])

\* slip: an existing entry is patched in place with the new status only
MapSetPatchesStatus(m, k, v) ==
  IF MapHas(m, k)
    THEN [m EXCEPT ![MapIndex(m, k)].v.status = v.status]
    ELSE Append(m, [k |-> k, v |-> v])

\* Map.prototype.set: an existing key keeps its position, a new key goes last
MapSet(m, k, v) ==
  IF MapHas(m, k)
    THEN [m EXCEPT ![MapIndex(m, k)] = [k |-> k, v |-> v]]
    ELSE Append(m, [k |-> k, v |-> v])
\* Map.prototype.delete
MapDelete(m, k) == SelectSeq(m, LAMBDA e : e.k # k)
MapValues(m) == [i \in 1..Len(m) |-> m[i].v]
MapSize(m) == Len(m)
MapKeys(m) == {m[i].k : i \in 1..Len(m)}
MapGet(m, k) == m[MapIndex(m, k)].v

\* Array.prototype.slice(start, end)
Slice(arr, start, end) ==
  LET len == Len(arr)
      from == IF start < 0 THEN Max(len + start, 0) ELSE Min(start, len)
      to == IF end < 0 THEN Max(len + end, 0) ELSE Min(end, len)
      n == Max(to - from, 0)
  IN [i \in 1..n |-> arr[from + i]]

\* ------------------------------------------------------------ event inputs
\* A presenceUpdate event, as far as the handler reads newPresence:
\*   user    newPresence?.user (its id), or NoUser
\*   status  newPresence.status
\*   member  "named"   newPresence.member with member.user.username set
\*           "unnamed" newPresence.member whose user has no username
\*           "none"    no newPresence.member
\*   avatar  what the avatar lookup does: "ok", "throws", or "nomethod"
\*           (user.displayAvatarURL is not a function; only read without member)
PresenceEvent(user, status, member, avatar) ==
  [user |-> user, status |-> status, member |-> member, avatar |-> avatar]

StatusInputs == {"online", "idle", "dnd", "offline", "invisible", NoStatus}

\* Every event about the users ids that the handler can tell apart (fields it
\* never reads are fixed).
PresenceEventsOf(ids) ==
  {PresenceEvent(NoUser, "online", "none", "ok")}
  \cup {PresenceEvent(u, s, "none", "ok") :
          u \in ids, s \in StatusInputs \ UpdateStatuses}
  \cup {PresenceEvent(u, s, m, "ok") :
          u \in ids, s \in UpdateStatuses, m \in {"named", "unnamed", "none"}}
  \cup {PresenceEvent(u, s, m, "throws") :
          u \in ids, s \in UpdateStatuses, m \in {"named", "none"}}
  \cup {PresenceEvent(u, s, "none", "nomethod") : u \in ids, s \in UpdateStatuses}

PresenceEvents == PresenceEventsOf(Ids)

\* One event of each path of the handler (two of the upsert, so that an
\* overwrite shows)
EventPaths(events) ==
  {ev \in events :
     \/ ev.user = NoUser
     \/ ev.status = "offline"
     \/ ev.status = "online" /\ ev.member = "named"
     \/ ev.status = "idle" /\ ev.member = "none" /\ ev.avatar = "ok"}

\* The presenceUpdate events the connections of Spec deliver
GatewayEvents == EventPaths(PresenceEvents)

\* A guildMemberRemove event: the member's id
RemoveEvents == Ids

\* A record of guild.members.cache, as far as the seeding pass reads it:
\*   presence  m.presence.status, or NoPresence
\*   hasUser   m.user is an object
\*   avatar    "ok" or "throws" (u.displayAvatarURL)
GuildMember(id, presence, hasUser, avatar) ==
  [id |-> id, presence |-> presence, hasUser |-> hasUser, avatar |-> avatar]

GuildMembersOf(id) ==
  {GuildMember(id, p, TRUE, "ok") : p \in {"online", "offline", NoPresence}}
  \cup {GuildMember(id, "idle", TRUE, "throws"), GuildMember(id, "dnd", FALSE, "ok")}

GuildMemberRecords == UNION {GuildMembersOf(id) : id \in Ids}

\* guild.members.cache: member records of distinct ids, in any iteration order
GuildMemberLists ==
  {l \in UNION {[1..n -> GuildMemberRecords] : n \in 0..MaxGuild} :
     \A i, j \in 1..Len(l) : i # j => l[i].id # l[j].id}

\* --------------------------------------------------------- event handlers
Snapshot(id, username, avatar, status) ==
  [id |-> id, username |-> username, avatar |-> avatar, status |-> status]

\* slip: only the status offline removes the member
presenceUpdateOfflineOnly(cache, ev) ==
  IF ev.user = NoUser THEN cache
  ELSE IF Truthy(ev.status) /\ ev.status \in UpdateStatuses
    THEN IF ev.avatar = "throws" \/ (ev.member # "none" /\ ev.avatar = "nomethod")
           THEN cache
           ELSE MapSet(cache, ev.user,
                  Snapshot(ev.user,
                           IF ev.member = "named" THEN "member-name" ELSE "user-name",
                           IF ev.member # "none" THEN "member-png64"
                           ELSE IF ev.avatar = "nomethod" THEN Undefined
                           ELSE "user-default",
                           ev.status))
    ELSE IF ev.status = "offline" THEN MapDelete(cache, ev.user) ELSE cache

\* slip: the entry is set before the avatar is looked up, so an event whose
\* lookup throws leaves an entry without avatar
presenceUpdateSetsFirst(cache, ev) ==
  IF ev.user = NoUser THEN cache
  ELSE IF Truthy(ev.status) /\ ev.status \in UpdateStatuses
    THEN IF ev.avatar = "throws" \/ (ev.member # "none" /\ ev.avatar = "nomethod")
           THEN MapSet(cache, ev.user,
                  Snapshot(ev.user,
                           IF ev.member = "named" THEN "member-name" ELSE "user-name",
                           Undefined, ev.status))
           ELSE MapSet(cache, ev.user,
                  Snapshot(ev.user,
                           IF ev.member = "named" THEN "member-name" ELSE "user-name",
                           IF ev.member # "none" THEN "member-png64"
                           ELSE IF ev.avatar = "nomethod" THEN Undefined
                           ELSE "user-default",
                           ev.status))
    ELSE MapDelete(cache, ev.user)

\* client.on('presenceUpdate', ...): the cache after the handler ran on ev
presenceUpdate(cache, ev) ==
  IF ev.user = NoUser THEN cache                                  \* if (!user) return
  ELSE IF Truthy(ev.status) /\ ev.status \in UpdateStatuses
    THEN IF ev.avatar = "throws" \/ (ev.member # "none" /\ ev.avatar = "nomethod")
           THEN cache                                             \* caught, logged
           ELSE MapSet(cache, ev.user,
                  Snapshot(ev.user,
                           IF ev.member = "named" THEN "member-name" ELSE "user-name",
                           IF ev.member # "none" THEN "member-png64"
                           ELSE IF ev.avatar = "nomethod" THEN Undefined
                           ELSE "user-default",
                           ev.status))
    ELSE MapDelete(cache, ev.user)                                \* offline or invisible

\* slip: the member is removed by position, as with splice(indexOf(id), 1),
\* which takes the last entry when the id is not there
guildMemberRemoveSplices(cache, memberId) ==
  IF MapHas(cache, memberId) THEN MapDelete(cache, memberId)
  ELSE SubSeq(cache, 1, Len(cache) - 1)

\* slip: clear() instead of delete(member.id)
guildMemberRemoveClears(cache, memberId) == <<>>

\* client.on('guildMemberRemove', ...)
guildMemberRemove(cache, memberId) == MapDelete(cache, memberId)

\* slip: the seeding pass stores every member that has a presence
SeedMemberAnyStatus(cache, m) ==
  IF m.presence # NoPresence
    THEN IF ~m.hasUser \/ m.avatar = "throws"
           THEN cache
           ELSE MapSet(cache, m.id, Snapshot(m.id, "user-name", "user-png64", m.presence))
    ELSE cache

\* the body of guild.members.cache.forEach for one member m
SeedMember(cache, m) ==
  IF m.presence # NoPresence /\ m.presence \in SeedStatuses
    THEN IF ~m.hasUser \/ m.avatar = "throws"
           THEN cache                                             \* catch (e) {}
           ELSE MapSet(cache, m.id, Snapshot(m.id, "user-name", "user-png64", m.presence))
    ELSE cache

\* the cache after forEach has visited the first n members
RECURSIVE SeedUpTo(_, _, _)
SeedUpTo(cache, members, n) ==
  IF n = 0 THEN cache
  ELSE SeedMember(SeedUpTo(cache, members, n - 1), members[n])

\* slip: one try block around the whole forEach, so the pass ends at the first
\* record that raises
SeedFromAborting(cache, members) ==
  LET bad == {i \in 1..Len(members) :
                /\ members[i].presence # NoPresence
                /\ members[i].presence \in SeedStatuses
                /\ (~members[i].hasUser \/ members[i].avatar = "throws")}
      upTo == IF bad = {} THEN Len(members)
              ELSE (CHOOSE i \in bad : \A j \in bad : i <= j) - 1
  IN SeedUpTo(cache, members, upTo)

\* guild.members.cache.forEach(...)
SeedFrom(cache, members) == SeedUpTo(cache, members, Len(members))

\* ------------------------------------------------------------------ state
VARIABLES
  client,         \* let client: Null or the connection it refers to
  enabled,        \* let enabled
  onlineMembers,  \* const onlineMembers = new Map()
  emitter,        \* the init calls whose once('ready') listener is registered
  inits,          \* each init() call: where it stands and what it returned
  conns,          \* each connection (discord.js Client) an init created
  stops,          \* each stop() call
  handlers,       \* each run of the async 'ready' handler
  afterStop,      \* history: "no" until a stop() returns and again from the next
                  \* init call on; else "idle" or "torn", "torn" when one of the
                  \* stop() calls returned since had found a client
  afterFail,      \* history: an init returned disabled from its catch block and no
                  \* init has returned enabled since
  summary,        \* the last result of getSummary, where a caller stored one
  replay,         \* the event sequence being replayed (SpecReplay only)
  trail,          \* history of the events delivered (SpecEvents only)
  blogs           \* the blog file and the requests on /api/blogs (SpecBlogs only)

vars == <<client, enabled, onlineMembers, emitter, inits, conns, stops, handlers,
          afterStop, afterFail, summary, replay, trail, blogs>>
hist == <<afterStop, afterFail>>
other == <<summary, replay, trail, blogs>>

Disabled == [enabled |-> FALSE, count |-> 0, members |-> <<>>]
\* summary: via "none" (no query yet), "call" (getSummary({limit})), "endpoint"
\* (GET /api/discord/online), "endpoint-nomodule" (the same, playercount not
\* loaded); limit is the limit passed; res the result
NoSummary == [via |-> "none", limit |-> 0, res |-> Disabled]
\* replay: ops the event sequence, pos the next event, pass 1 or 2 (3: both
\* done), first the cache at the end of pass 1
NoReplay == [ops |-> <<>>, pos |-> 0, pass |-> 0, first |-> <<>>]
\* trail: op the event delivered last (kind "none", "presence", "remove" or
\* "seed"; ev the presence event or the removed member; members the records the
\* seeding pass read); times how often in a row it was delivered (up to 2);
\* latest, per user id, what the last processed record or event about it was:
\* "none", "classified", "unclassified" or "removed"; guild the guild that
\* guilds.fetch resolved with (fetched) and its memberCount (0: it has none)
Op(kind, ev, members) == [kind |-> kind, ev |-> ev, members |-> members]
NoOp == Op("none", PresenceEvent(NoUser, NoStatus, "none", "ok"), <<>>)
NoGuild == [fetched |-> FALSE, memberCount |-> 0]
NoTrail == [op |-> NoOp, times |-> 0, latest |-> [u \in ReplayIds |-> "none"],
            guild |-> NoGuild]

\* blogs: file the posts stored in the blog file, first to last (a post is its
\* id, the id of the request that created it, and rev, the request that wrote
\* its fields last); reqs the requests: kind "none", "create", "update" or
\* "delete"; pc "idle", "reading" (awaiting readBlogs), "writing" (awaiting
\* writeBlogs) or "done"; target the :id of an update or delete; posts the
\* request's own array; readOk that its readBlogs did not fail; status the
\* HTTP status answered (0: none yet)
Post(id, rev) == [id |-> id, rev |-> rev]
IdleReq == [kind |-> "none", pc |-> "idle", target |-> 0, posts |-> <<>>, readOk |-> TRUE,
            status |-> 0]
NoBlogs == [file |-> <<>>, reqs |-> [r \in ReqIds |-> IdleReq]]

\* init call i: pc "idle" (not called), "login" (awaiting client.login),
\* "race" (awaiting Promise.race), "done" (returned ret); why names the return
\* statement taken
IdleInit == [pc |-> "idle", ret |-> "none", why |-> "none"]
\* connection: st "none", "connecting" (login begun), "open" (login resolved),
\* "failed" (login rejected), "destroyed"; destroys counts client.destroy() calls
\* on: its 'ready', 'presenceUpdate', 'guildMemberRemove' and 'error' handlers
\* are registered (client.on)
NoConn == [st |-> "none", destroys |-> 0, on |-> FALSE]
\* stop call s: pc "idle", "destroying" (awaiting conn.destroy()), "done"
IdleStop == [pc |-> "idle", conn |-> Null]
\* 'ready' handler run h: pc "idle", "fetchGuild", "fetchMembers", "done", or
\* "crashed" (it threw outside its try block); conn is the connection that
\* delivered the notification
IdleHandler == [pc |-> "idle", conn |-> Null]

\* the module as loaded, before any call: no init, no stop, no connection
Unstarted ==
  /\ client = Null
  /\ emitter = {}
  /\ inits = [i \in InitIds |-> IdleInit]
  /\ conns = [i \in InitIds |-> NoConn]
  /\ stops = [s \in StopIds |-> IdleStop]
  /\ handlers = [h \in HandlerIds |-> IdleHandler]
  /\ afterStop = "no"
  /\ afterFail = FALSE

Init ==
  /\ client = Null
  /\ enabled = FALSE
  /\ onlineMembers = <<>>
  /\ emitter = {}
  /\ inits = [i \in InitIds |-> IdleInit]
  /\ conns = [i \in InitIds |-> NoConn]
  /\ stops = [s \in StopIds |-> IdleStop]
  /\ handlers = [h \in HandlerIds |-> IdleHandler]
  /\ afterStop = "no"
  /\ afterFail = FALSE
  /\ summary = NoSummary
  /\ replay = NoReplay
  /\ trail = NoTrail
  /\ blogs = NoBlogs

\* the next call of init / stop / the next handler run takes the lowest free slot
NextInit(i) == inits[i].pc = "idle" /\ \A j \in InitIds : j < i => inits[j].pc # "idle"
NextStop(s) == stops[s].pc = "idle" /\ \A t \in StopIds : t < s => stops[t].pc # "idle"
NextHandler(h) ==
  handlers[h].pc = "idle" /\ \A g \in HandlerIds : g < h => handlers[g].pc # "idle"

Returned(ret, why) == [pc |-> "done", ret |-> ret, why |-> why]

\* the connection still delivers gateway events
Live(c) == conns[c].st \in {"connecting", "open"}

\* ------------------------------------------------------------ getSummary
\* slip: count is taken from the returned slice
getSummaryCountsSlice(limit) ==
  IF ~enabled THEN [enabled |-> FALSE, count |-> 0, members |-> <<>>]
  ELSE [enabled |-> TRUE,
        count |-> Len(Slice(MapValues(onlineMembers), 0, limit)),
        members |-> Slice(MapValues(onlineMembers), 0, limit)]

getSummary(limit) ==
  IF ~enabled THEN [enabled |-> FALSE, count |-> 0, members |-> <<>>]
  ELSE [enabled |-> TRUE,
        count |-> MapSize(onlineMembers),
        members |-> Slice(MapValues(onlineMembers), 0, limit)]

\* ------------------------------------------------------------------ init
\* slip: the missing-configuration return goes through the catch block
InitMissingThroughCatch(i) ==
  /\ NextInit(i)
  /\ inits' = [inits EXCEPT ![i] = Returned("disabled", "missing")]
  /\ enabled' = FALSE
  /\ afterStop' = "no"
  /\ UNCHANGED <<client, onlineMembers, emitter, conns, stops, handlers, afterFail, other>>

\* init called without a token or without a guild id
InitMissing(i) ==
  /\ NextInit(i)
  /\ \E token, guildId \in {"", "set"} :
       /\ token = "" \/ guildId = ""
       /\ inits' = [inits EXCEPT ![i] = Returned("disabled", "missing")]
  /\ afterStop' = "no"
  /\ UNCHANGED <<client, enabled, onlineMembers, emitter, conns, stops, handlers,
                 afterFail, other>>

\* init with both: require('discord.js') or new Client(...) throws
InitSetupThrows(i) ==
  /\ NextInit(i)
  /\ enabled' = FALSE
  /\ inits' = [inits EXCEPT ![i] = Returned("disabled", "setup")]
  /\ afterStop' = "no"
  /\ afterFail' = TRUE
  /\ UNCHANGED <<client, onlineMembers, emitter, conns, stops, handlers, other>>

\* slip: login is begun before the handlers are registered
InitConnectLoginFirst(i) ==
  /\ NextInit(i)
  /\ client' = i
  /\ conns' = [conns EXCEPT ![i].st = "connecting"]
  /\ inits' = [inits EXCEPT ![i].pc = "login"]
  /\ afterStop' = "no"
  /\ UNCHANGED <<enabled, onlineMembers, emitter, stops, handlers, afterFail, other>>

\* init with both: the client is created, its handlers registered, login begun
InitConnect(i) ==
  /\ NextInit(i)
  /\ client' = i
  /\ conns' = [conns EXCEPT ![i].on = TRUE, ![i].st = "connecting"]
  /\ inits' = [inits EXCEPT ![i].pc = "login"]
  /\ afterStop' = "no"
  /\ UNCHANGED <<enabled, onlineMembers, emitter, stops, handlers, afterFail, other>>

\* init with both a token and a guild id
init(i) == InitSetupThrows(i) \/ InitConnect(i)

\* await client.login(token) resolves: the race of 'ready' and the timer begins
LoginResolves(i) ==
  /\ inits[i].pc = "login"
  /\ conns[i].st \in {"connecting", "destroyed"}
  /\ conns' = [conns EXCEPT ![i].st = IF @ = "connecting" THEN "open" ELSE @]
  /\ inits' = [inits EXCEPT ![i].pc = "race"]
  /\ emitter' = emitter \cup {i}
  /\ UNCHANGED <<client, enabled, onlineMembers, stops, handlers, hist, other>>

\* slip: the catch block does not reset the flag
LoginRejectsKeepsFlag(i) ==
  /\ inits[i].pc = "login"
  /\ conns' = [conns EXCEPT ![i].st = IF @ = "connecting" THEN "failed" ELSE @]
  /\ inits' = [inits EXCEPT ![i] = Returned("disabled", "login")]
  /\ afterFail' = TRUE
  /\ UNCHANGED <<client, enabled, onlineMembers, emitter, stops, handlers, afterStop, other>>

\* await client.login(token) rejects: the catch block
LoginRejects(i) ==
  /\ inits[i].pc = "login"
  /\ conns' = [conns EXCEPT ![i].st = IF @ = "connecting" THEN "failed" ELSE @]
  /\ enabled' = FALSE
  /\ inits' = [inits EXCEPT ![i] = Returned("disabled", "login")]
  /\ afterFail' = TRUE
  /\ UNCHANGED <<client, onlineMembers, emitter, stops, handlers, afterStop, other>>

\* slip: the timer's callback does not resolve the race
RaceTimeoutUnresolved(i) ==
  /\ inits[i].pc = "race"
  /\ UNCHANGED vars

\* setTimeout(resolve, 3000) fires first: init returns { enabled: true }
RaceTimeout(i) ==
  /\ inits[i].pc = "race"
  /\ inits' = [inits EXCEPT ![i] = Returned("enabled", "timeout")]
  /\ afterFail' = FALSE
  /\ UNCHANGED <<client, enabled, onlineMembers, emitter, conns, stops, handlers,
                 afterStop, other>>

\* emitter.emit('ready'): every registered once-listener resolves its race, and
\* the init calls still waiting on it return { enabled: true }
Resolved == {i \in emitter : inits[i].pc = "race"}
EmitReady ==
  /\ inits' = [i \in InitIds |->
                 IF i \in Resolved THEN Returned("enabled", "ready") ELSE inits[i]]
  /\ emitter' = {}
  /\ afterFail' = IF Resolved # {} THEN FALSE ELSE afterFail

\* ------------------------------------------------------- the ready handler
\* guild.memberCount values: undefined, below the threshold, at the threshold
GuildSizes == {0, DefaultCacheThreshold - 1, DefaultCacheThreshold}

\* slip: <= instead of <
FetchesMembersUpToThreshold(memberCount, cacheThreshold) ==
  memberCount # 0 /\ memberCount <= cacheThreshold

\* if (guild && guild.memberCount && guild.memberCount < cacheThreshold)
FetchesMembers(memberCount, cacheThreshold) ==
  memberCount # 0 /\ memberCount < cacheThreshold

\* client.on('ready', async () => {...}) up to its first await: conn c delivers
\* the notification; the handler reads the module's client, not c
ReadyEvent(c, h) ==
  /\ conns[c].st = "open"
  /\ conns[c].on
  /\ NextHandler(h)
  /\ enabled' = TRUE
  /\ handlers' = [handlers EXCEPT ![h] =
       [pc |-> IF client = Null THEN "crashed" ELSE "fetchGuild", conn |-> c]]
  /\ UNCHANGED <<client, onlineMembers, emitter, inits, conns, stops, hist, other>>

\* the tail of the handler: the forEach over guild.members.cache, then the emit
SeedAndEmit(h) ==
  /\ \E members \in GuildMemberLists : onlineMembers' = SeedFrom(onlineMembers, members)
  /\ EmitReady
  /\ handlers' = [handlers EXCEPT ![h].pc = "done"]

\* the catch block of the handler, then the emit
FailAndEmit(h) ==
  /\ EmitReady
  /\ handlers' = [handlers EXCEPT ![h].pc = "done"]
  /\ UNCHANGED onlineMembers

\* await client.guilds.fetch(guildId) settles
GuildFetchSettles(h) ==
  /\ handlers[h].pc = "fetchGuild"
  /\ \/ FailAndEmit(h)                                     \* rejected, or no guild
     \/ \E memberCount \in GuildSizes :
          IF FetchesMembers(memberCount, DefaultCacheThreshold)
            THEN /\ handlers' = [handlers EXCEPT ![h].pc = "fetchMembers"]
                 /\ UNCHANGED <<onlineMembers, emitter, inits, afterFail>>
            ELSE SeedAndEmit(h)
  /\ UNCHANGED <<client, enabled, conns, stops, afterStop, other>>

\* await guild.members.fetch() settles
MembersFetchSettles(h) ==
  /\ handlers[h].pc = "fetchMembers"
  /\ (SeedAndEmit(h) \/ FailAndEmit(h))
  /\ UNCHANGED <<client, enabled, conns, stops, afterStop, other>>

\* ----------------------------------------------------------- gateway events
\* the upstream of connection c emits presenceUpdate: the handler runs when it
\* is registered, else the event is lost
PresenceUpdateEvent(c) ==
  /\ Live(c)
  /\ \E ev \in GatewayEvents :
       onlineMembers' = IF conns[c].on THEN presenceUpdate(onlineMembers, ev)
                        ELSE onlineMembers
  /\ UNCHANGED <<client, enabled, emitter, inits, conns, stops, handlers, hist, other>>

\* the upstream of connection c emits guildMemberRemove
GuildMemberRemoveEvent(c) ==
  /\ Live(c)
  /\ \E id \in RemoveEvents :
       onlineMembers' = IF conns[c].on THEN guildMemberRemove(onlineMembers, id)
                        ELSE onlineMembers
  /\ UNCHANGED <<client, enabled, emitter, inits, conns, stops, handlers, hist, other>>

\* ------------------------------------------------------------------ stop
\* slip: the reset of the module state is outside the if (client) block
StopCallResetsAlways(s) ==
  /\ NextStop(s)
  /\ IF client # Null
       THEN /\ conns' = [conns EXCEPT ![client].destroys = @ + 1]
            /\ stops' = [stops EXCEPT ![s] = [pc |-> "destroying", conn |-> client]]
            /\ UNCHANGED <<afterStop, enabled, onlineMembers>>
       ELSE /\ stops' = [stops EXCEPT ![s].pc = "done"]
            /\ afterStop' = IF afterStop = "torn" THEN "torn" ELSE "idle"
            /\ enabled' = FALSE
            /\ onlineMembers' = <<>>
            /\ UNCHANGED conns
  /\ UNCHANGED <<client, emitter, inits, handlers, afterFail, other>>

\* stop() up to await client.destroy(), or to its end when client is null
StopCall(s) ==
  /\ NextStop(s)
  /\ IF client # Null
       THEN /\ conns' = [conns EXCEPT ![client].destroys = @ + 1]
            /\ stops' = [stops EXCEPT ![s] = [pc |-> "destroying", conn |-> client]]
            /\ UNCHANGED afterStop
       ELSE /\ stops' = [stops EXCEPT ![s].pc = "done"]
            /\ afterStop' = IF afterStop = "torn" THEN "torn" ELSE "idle"
            /\ UNCHANGED conns
  /\ UNCHANGED <<client, enabled, onlineMembers, emitter, inits, handlers, afterFail, other>>

\* await client.destroy() resolves: the rest of the if block
DestroyResolves(s) ==
  /\ stops[s].pc = "destroying"
  /\ conns' = [conns EXCEPT ![stops[s].conn].st = "destroyed"]
  /\ client' = Null
  /\ enabled' = FALSE
  /\ onlineMembers' = <<>>
  /\ stops' = [stops EXCEPT ![s] = [pc |-> "done", conn |-> Null]]
  /\ afterStop' = "torn"
  /\ UNCHANGED <<emitter, inits, handlers, afterFail, other>>

\* await client.destroy() rejects: catch (e) { /* ignore */ }
DestroyRejects(s) ==
  /\ stops[s].pc = "destroying"
  /\ stops' = [stops EXCEPT ![s] = [pc |-> "done", conn |-> Null]]
  /\ afterStop' = "torn"
  /\ UNCHANGED <<client, enabled, onlineMembers, emitter, inits, conns, handlers,
                 afterFail, other>>

\* ------------------------------------------------------------ specification
Next ==
  \/ \E i \in InitIds : InitMissing(i)
  \/ \E i \in InitIds : init(i)
  \/ \E i \in InitIds : LoginResolves(i)
  \/ \E i \in InitIds : LoginRejects(i)
  \/ \E i \in InitIds : RaceTimeout(i)
  \/ \E c \in InitIds, h \in HandlerIds : ReadyEvent(c, h)
  \/ \E h \in HandlerIds : GuildFetchSettles(h)
  \/ \E h \in HandlerIds : MembersFetchSettles(h)
  \/ \E c \in InitIds : PresenceUpdateEvent(c)
  \/ \E c \in InitIds : GuildMemberRemoveEvent(c)
  \/ \E s \in StopIds : StopCall(s)
  \/ \E s \in StopIds : DestroyResolves(s)
  \/ \E s \in StopIds : DestroyRejects(s)

Spec == Init /\ [][Next]_vars

\* ------------------------------------------- getSummary on caches of any size
\* The module after one init whose connection logged in and whose race ended
\* by the timer: no ready yet, the cache empty
Connected ==
  /\ client = 1
  /\ emitter = {1}
  /\ inits = [i \in InitIds |-> IF i = 1 THEN Returned("enabled", "timeout") ELSE IdleInit]
  /\ conns = [i \in InitIds |-> IF i = 1 THEN [st |-> "open", destroys |-> 0, on |-> TRUE] ELSE NoConn]
  /\ stops = [s \in StopIds |-> IdleStop]
  /\ handlers = [h \in HandlerIds |-> IdleHandler]
  /\ afterStop = "no"
  /\ afterFail = FALSE

\* The module after one init whose connection signalled ready and seeded
SeededState ==
  /\ client = 1
  /\ emitter = {}
  /\ inits = [i \in InitIds |-> IF i = 1 THEN Returned("enabled", "ready") ELSE IdleInit]
  /\ conns = [i \in InitIds |-> IF i = 1 THEN [st |-> "open", destroys |-> 0, on |-> TRUE] ELSE NoConn]
  /\ stops = [s \in StopIds |-> IdleStop]
  /\ handlers = [h \in HandlerIds |->
                   IF h = 1 THEN [pc |-> "done", conn |-> 1] ELSE IdleHandler]
  /\ afterStop = "no"
  /\ afterFail = FALSE

InitSummary ==
  /\ \/ Unstarted /\ enabled = FALSE
     \/ SeededState /\ enabled = TRUE
  /\ onlineMembers = <<>>
  /\ summary = NoSummary
  /\ replay = NoReplay
  /\ trail = NoTrail
  /\ blogs = NoBlogs

\* the connection reports the next user coming online, until a caller queries
SummaryPresenceUpdate ==
  /\ summary.via = "none"
  /\ Live(1)
  /\ Len(onlineMembers) < MaxMembers
  /\ \E status \in UpdateStatuses :
       /\ status = <<"online", "idle", "dnd">>[(Len(onlineMembers) % 3) + 1]
       /\ onlineMembers' =
            presenceUpdate(onlineMembers,
                           PresenceEvent(Len(onlineMembers) + 1, status, "named", "ok"))
  /\ UNCHANGED <<client, enabled, emitter, inits, conns, stops, handlers, hist, other>>

\* a caller stores getSummary({ limit })
GetSummaryCall ==
  /\ \E limit \in 0..(MaxMembers + 1) :
       summary' = [via |-> "call", limit |-> limit, res |-> getSummary(limit)]
  /\ UNCHANGED <<client, enabled, onlineMembers, emitter, inits, conns, stops, handlers,
                 hist, replay, trail, blogs>>

\* app.get('/api/discord/online', ...): the body of the response
OnlineEndpoint ==
  /\ \E loaded \in BOOLEAN :
       summary' =
         IF ~loaded
           THEN [via |-> "endpoint-nomodule", limit |-> DefaultLimit,
                 res |-> [enabled |-> FALSE, count |-> 0, members |-> <<>>]]
           ELSE [via |-> "endpoint", limit |-> DefaultLimit,
                 res |-> getSummary(DefaultLimit)]
  /\ UNCHANGED <<client, enabled, onlineMembers, emitter, inits, conns, stops, handlers,
                 hist, replay, trail, blogs>>

NextSummary == SummaryPresenceUpdate \/ GetSummaryCall \/ OnlineEndpoint

SpecSummary == InitSummary /\ [][NextSummary]_vars

\* --------------------------------------------- replaying an event sequence
\* the events of a replayed sequence: op.kind "presence" (a presenceUpdate with
\* newPresence op.ev) or "remove" (a guildMemberRemove of member op.ev.user)
ReplayOps ==
  {[kind |-> "presence", ev |-> e] : e \in EventPaths(PresenceEventsOf(ReplayIds))}
  \cup {[kind |-> "remove", ev |-> PresenceEvent(u, NoStatus, "none", "ok")] :
          u \in ReplayIds}

InitReplay ==
  /\ Connected
  /\ enabled = FALSE
  /\ onlineMembers = <<>>
  /\ summary = NoSummary
  /\ \E n \in 1..MaxOps : \E ops \in [1..n -> ReplayOps] :
       replay = [ops |-> ops, pos |-> 1, pass |-> 1, first |-> <<>>]
  /\ trail = NoTrail
  /\ blogs = NoBlogs

\* the bookkeeping of the replay once the event at pos has left the cache as
\* cache: the next event, the second pass, or the end
Advance(cache) ==
  IF replay.pos < Len(replay.ops) THEN [replay EXCEPT !.pos = @ + 1]
  ELSE IF replay.pass = 1 THEN [replay EXCEPT !.pos = 1, !.pass = 2, !.first = cache]
  ELSE [replay EXCEPT !.pass = 3]

ReplayPresenceUpdate ==
  /\ replay.pass \in {1, 2}
  /\ replay.ops[replay.pos].kind = "presence"
  /\ onlineMembers' = presenceUpdate(onlineMembers, replay.ops[replay.pos].ev)
  /\ replay' = Advance(onlineMembers')
  /\ UNCHANGED <<client, enabled, emitter, inits, conns, stops, handlers, hist, summary,
                 trail, blogs>>

ReplayGuildMemberRemove ==
  /\ replay.pass \in {1, 2}
  /\ replay.ops[replay.pos].kind = "remove"
  /\ onlineMembers' = guildMemberRemove(onlineMembers, replay.ops[replay.pos].ev.user)
  /\ replay' = Advance(onlineMembers')
  /\ UNCHANGED <<client, enabled, emitter, inits, conns, stops, handlers, hist, summary,
                 trail, blogs>>

NextReplay == ReplayPresenceUpdate \/ ReplayGuildMemberRemove

SpecReplay == InitReplay /\ [][NextReplay]_vars

\* ------------------------------- events delivered to a connected module
\* newPresence.status: the classified values, offline, invisible, a missing
\* status, the empty string and a string the code does not name
StatusValues == StatusInputs \cup {"", "streaming"}

\* The presenceUpdate events delivered in SpecEvents: every status, every way
\* the username and the avatar are read, and two events whose avatar lookup
\* throws
DeliveredEvents ==
  {PresenceEvent(NoUser, "online", "none", "ok")}
  \cup {PresenceEvent(u, s, "none", "ok") :
          u \in ReplayIds, s \in StatusValues \ UpdateStatuses}
  \cup {PresenceEvent(u, s, m, "ok") :
          u \in ReplayIds, s \in UpdateStatuses, m \in {"named", "unnamed", "none"}}
  \cup {PresenceEvent(u, s, "none", "nomethod") : u \in ReplayIds, s \in UpdateStatuses}
  \cup {PresenceEvent(u, "online", "named", "throws") : u \in ReplayIds}
  \cup {PresenceEvent(u, "idle", "none", "throws") : u \in ReplayIds}

\* guild.members.cache in SpecEvents: records of distinct users, in any order
SeedLists ==
  {l \in UNION {[1..n -> UNION {GuildMembersOf(u) : u \in ReplayIds}] :
                  n \in 0..MaxReplayId} :
     \A i, j \in 1..Len(l) : i # j => l[i].id # l[j].id}

\* the presence event was dropped: no user, or the avatar lookup threw
DroppedEvent(ev) == ev.user = NoUser \/ ev.avatar = "throws"
\* the seeding pass skipped the record: m.user missing or its avatar lookup threw
SkippedRecord(m) == m.presence \in SeedStatuses /\ (~m.hasUser \/ m.avatar = "throws")

\* what a status counts as in the history
Carried(status) ==
  IF status \in {"online", "idle", "dnd"} THEN "classified" ELSE "unclassified"

\* the history after op was delivered, with latest the per-user part
Noted(op, latest) ==
  [op |-> op, times |-> IF trail.op = op THEN 2 ELSE 1, latest |-> latest,
   guild |-> trail.guild]

LatestAfterPresence(ev) ==
  IF DroppedEvent(ev) THEN trail.latest
  ELSE [trail.latest EXCEPT ![ev.user] = Carried(ev.status)]

LatestAfterSeed(members) ==
  [u \in ReplayIds |->
     IF \E i \in 1..Len(members) : members[i].id = u /\ ~SkippedRecord(members[i])
       THEN Carried((CHOOSE m \in {members[i] : i \in 1..Len(members)} : m.id = u).presence)
       ELSE trail.latest[u]]

InitEvents ==
  /\ Connected
  /\ enabled = FALSE
  /\ onlineMembers = <<>>
  /\ summary = NoSummary
  /\ replay = NoReplay
  /\ trail = NoTrail
  /\ blogs = NoBlogs

\* the limits the callers of SpecEvents pass: none of the members, fewer than
\* are cached, and the endpoint's
EventsLimits == {0, 1, DefaultLimit}

\* the connection delivers a presenceUpdate (until a caller has queried)
EventsPresenceUpdate ==
  /\ summary.via = "none"
  /\ Live(1)
  /\ \E ev \in DeliveredEvents :
       /\ onlineMembers' = presenceUpdate(onlineMembers, ev)
       /\ trail' = Noted(Op("presence", ev, <<>>), LatestAfterPresence(ev))
  /\ UNCHANGED <<client, enabled, emitter, inits, conns, stops, handlers, hist, summary,
                 replay, blogs>>

\* the connection delivers a guildMemberRemove
EventsGuildMemberRemove ==
  /\ summary.via = "none"
  /\ Live(1)
  /\ \E id \in ReplayIds :
       /\ onlineMembers' = guildMemberRemove(onlineMembers, id)
       /\ trail' = Noted(Op("remove", PresenceEvent(id, NoStatus, "none", "ok"), <<>>),
                         [trail.latest EXCEPT ![id] = "removed"])
  /\ UNCHANGED <<client, enabled, emitter, inits, conns, stops, handlers, hist, summary,
                 replay, blogs>>

\* the connection delivers its ready notification
EventsReady ==
  /\ summary.via = "none"
  /\ handlers[1].pc = "idle"
  /\ ReadyEvent(1, 1)

\* the guild is fetched (and its members, below the threshold): the forEach
\* over guild.members.cache, then the emit
EventsSeed ==
  /\ summary.via = "none"
  /\ handlers[1].pc = "fetchGuild"
  /\ \E members \in SeedLists :
       /\ onlineMembers' = SeedFrom(onlineMembers, members)
       /\ trail' = Noted(Op("seed", NoOp.ev, members), LatestAfterSeed(members))
  /\ EmitReady
  /\ handlers' = [handlers EXCEPT ![1].pc = "done"]
  /\ UNCHANGED <<client, enabled, conns, stops, afterStop, summary, replay, blogs>>

\* --------------------------------------------- the ready handler's fetches
\* guild.memberCount in SpecSeeding: none, one member, and the values around
\* the threshold
SeedingGuildSizes == GuildSizes \cup {1, DefaultCacheThreshold + 1}

InitSeeding == InitEvents

\* the forEach over guild.members.cache and the emit, for the fetched guild
SeedingSeedAndEmit(guild) ==
  /\ \E members \in SeedLists :
       /\ onlineMembers' = SeedFrom(onlineMembers, members)
       /\ trail' = [Noted(Op("seed", NoOp.ev, members), LatestAfterSeed(members))
                      EXCEPT !.guild = guild]
  /\ EmitReady
  /\ handlers' = [handlers EXCEPT ![1].pc = "done"]
  /\ UNCHANGED <<client, enabled, conns, stops, afterStop, summary, replay, blogs>>

\* await client.guilds.fetch(guildId) settles
SeedingGuildFetch ==
  /\ handlers[1].pc = "fetchGuild"
  /\ \/ /\ FailAndEmit(1)                                   \* rejected
        /\ UNCHANGED <<client, enabled, conns, stops, afterStop, other>>
     \/ \E memberCount \in SeedingGuildSizes :
          LET guild == [fetched |-> TRUE, memberCount |-> memberCount] IN
            IF FetchesMembers(memberCount, DefaultCacheThreshold)
              THEN /\ trail' = [trail EXCEPT !.guild = guild]
                   /\ handlers' = [handlers EXCEPT ![1].pc = "fetchMembers"]
                   /\ UNCHANGED <<client, enabled, onlineMembers, emitter, inits, conns,
                                  stops, hist, summary, replay,
                                  blogs>>
              ELSE SeedingSeedAndEmit(guild)

\* await guild.members.fetch() settles
SeedingMembersFetch ==
  /\ handlers[1].pc = "fetchMembers"
  /\ \/ SeedingSeedAndEmit(trail.guild)
     \/ /\ FailAndEmit(1)                                   \* rejected
        /\ UNCHANGED <<client, enabled, conns, stops, afterStop, other>>

NextSeeding ==
  \/ EventsReady
  \/ SeedingGuildFetch
  \/ SeedingMembersFetch

SpecSeeding == InitSeeding /\ [][NextSeeding]_vars

\* a caller stores getSummary({ limit }), between two runs of the handlers
EventsGetSummary ==
  /\ summary.via = "none"
  /\ \E limit \in EventsLimits :
       summary' = [via |-> "call", limit |-> limit, res |-> getSummary(limit)]
  /\ UNCHANGED <<client, enabled, onlineMembers, emitter, inits, conns, stops, handlers,
                 hist, replay, trail, blogs>>

NextEvents ==
  \/ EventsPresenceUpdate
  \/ EventsGuildMemberRemove
  \/ EventsReady
  \/ EventsSeed
  \/ EventsGetSummary

SpecEvents == InitEvents /\ [][NextEvents]_vars

\* -------------------------------------------------- requests on /api/blogs
\* everything but the blog file and its requests
outside == <<client, enabled, onlineMembers, emitter, inits, conns, stops, handlers,
             hist, summary, replay, trail>>

InitBlogs == Init

\* the next request handled takes the lowest free slot
NextReq(r) ==
  /\ blogs.reqs[r].pc = "idle"
  /\ \A q \in ReqIds : q < r => blogs.reqs[q].pc # "idle"

\* readBlogs(): the parsed file, or [] when reading or parsing fails
readBlogs(ok) == IF ok THEN blogs.file ELSE <<>>

\* posts.findIndex(p => p.id === id), 0 for -1
FindIndex(posts, id) ==
  IF \E i \in 1..Len(posts) : posts[i].id = id
    THEN CHOOSE i \in 1..Len(posts) :
           posts[i].id = id /\ \A j \in 1..Len(posts) : posts[j].id = id => i <= j
    ELSE 0

\* the request r, answered with status
Answered(r, status) == [blogs.reqs[r] EXCEPT !.pc = "done", !.status = status]

\* app.post('/api/blogs', ...) up to await readBlogs(), or to the 400 answer
BlogPost(r) ==
  /\ NextReq(r)
  /\ \E valid \in BOOLEAN :
       blogs' = [blogs EXCEPT !.reqs[r] =
                   IF valid THEN [IdleReq EXCEPT !.kind = "create", !.pc = "reading"]
                   ELSE [IdleReq EXCEPT !.kind = "create", !.pc = "done", !.status = 400]]
  /\ UNCHANGED outside

\* app.put('/api/blogs/:id', ...) up to await readBlogs()
BlogPut(r) ==
  /\ NextReq(r)
  /\ \E id \in ReqIds :
       blogs' = [blogs EXCEPT !.reqs[r] =
                   [IdleReq EXCEPT !.kind = "update", !.pc = "reading", !.target = id]]
  /\ UNCHANGED outside

\* app.delete('/api/blogs/:id', ...) up to await readBlogs()
BlogDelete(r) ==
  /\ NextReq(r)
  /\ \E id \in ReqIds :
       blogs' = [blogs EXCEPT !.reqs[r] =
                   [IdleReq EXCEPT !.kind = "delete", !.pc = "reading", !.target = id]]
  /\ UNCHANGED outside

\* await readBlogs() settles: the handler changes its own array and calls
\* writeBlogs, or answers 404
BlogReadSettles(r) ==
  /\ blogs.reqs[r].pc = "reading"
  /\ \E ok \in BOOLEAN :
       LET req == [blogs.reqs[r] EXCEPT !.readOk = ok]
           posts == readBlogs(ok)
           idx == FindIndex(posts, req.target)
           kept == SelectSeq(posts, LAMBDA p : p.id # req.target)
       IN blogs' = [blogs EXCEPT !.reqs[r] =
            IF req.kind = "create"
              THEN [req EXCEPT !.pc = "writing", !.posts = <<Post(r, r)>> \o posts]
            ELSE IF req.kind = "update"
              THEN IF idx = 0
                     THEN [req EXCEPT !.pc = "done", !.status = 404]
                     ELSE [req EXCEPT !.pc = "writing",
                                      !.posts = [posts EXCEPT ![idx].rev = r]]
            ELSE IF Len(kept) = Len(posts)
              THEN [req EXCEPT !.pc = "done", !.status = 404]
              ELSE [req EXCEPT !.pc = "writing", !.posts = kept]]
  /\ UNCHANGED outside

\* await writeBlogs(posts) settles: the file holds the request's array and the
\* request is answered, or the write failed and the answer is 500
BlogWriteSettles(r) ==
  /\ blogs.reqs[r].pc = "writing"
  /\ \/ blogs' = [blogs EXCEPT !.file = blogs.reqs[r].posts, !.reqs[r] = Answered(r, 200)]
     \/ blogs' = [blogs EXCEPT !.reqs[r] = Answered(r, 500)]
  /\ UNCHANGED outside

NextBlogs ==
  \/ \E r \in ReqIds : BlogPost(r)
  \/ \E r \in ReqIds : BlogPut(r)
  \/ \E r \in ReqIds : BlogDelete(r)
  \/ \E r \in ReqIds : BlogReadSettles(r)
  \/ \E r \in ReqIds : BlogWriteSettles(r)

SpecBlogs == InitBlogs /\ [][NextBlogs]_vars

\* The timer of the race is a setTimeout of the event loop: once armed it fires.
FairSpec == Spec /\ \A i \in InitIds : WF_vars(RaceTimeout(i))

\* the limits a caller of Spec may pass (the cache of Spec holds at most MaxId)
Limits == 0..(MaxId + 1) \cup {DefaultLimit}

\* ---------------------------------------------------------------- claims

\* C1 (as claimed): before any init has been called, and after a stop() has
\* returned with no init called since, getSummary returns
\* {enabled:false, count:0, members:[]} for every limit.
C1_DisabledBeforeInitAndAfterStop ==
  ((\A i \in InitIds : inits[i].pc = "idle") \/ afterStop # "no")
    => \A limit \in Limits : getSummary(limit) = Disabled

\* C2 (as claimed): at the step where an init returns {enabled:true}, by the
\* ready signal or by the timer, a getSummary made right after it reports
\* enabled:true.
C2_EnabledReturnMeansReady ==
  [][\A i \in InitIds :
       (inits[i].pc # "done" /\ inits'[i].pc = "done" /\ inits'[i].ret = "enabled")
         => enabled']_vars

\* C3: for an enabled cache and a limit >= 0, getSummary({limit}) returns
\* count equal to the number of cached members, whatever the limit, and
\* members equal to the first min(limit, count) values of the cache in its
\* iteration order; the endpoint's answer holds at most 100 members and the
\* same count.
C3_CountIsTotalMembersAreFirstLimit ==
  (enabled /\ summary.via \in {"call", "endpoint"})
    => /\ summary.res.enabled
       /\ summary.res.count = Cardinality(MapKeys(onlineMembers))
       /\ Len(summary.res.members) = Min(summary.limit, summary.res.count)
       /\ \A i \in 1..Len(summary.res.members) :
            summary.res.members[i] = onlineMembers[i].v
       /\ summary.via = "endpoint" => Len(summary.res.members) <= 100

\* C3 witness: the endpoint has answered for a cache of more than 100 members
\* with 100 of them and the full count.
C3_Witness ==
  /\ summary.via = "endpoint"
  /\ Len(onlineMembers) > 100
  /\ summary.res.count > 100
  /\ Len(summary.res.members) = 100

\* C4 (as claimed): once an init has returned {enabled:false} from its catch
\* block (setup or login failed), getSummary reports disabled and empty until
\* a later init returns {enabled:true}.
C4_FailedInitStaysDisabled ==
  afterFail => \A limit \in Limits : getSummary(limit) = Disabled

\* C4 (amended): an init whose setup or login fails returns {enabled:false}
\* and leaves enabled false, so getSummary reports disabled and empty right
\* after it; and enabled turns true again only in a step that delivers a ready
\* notification (from then on getSummary may report enabled, whether or not
\* any init has returned since).
C4_FailedInitDisablesUntilReady ==
  [][/\ \A i \in InitIds :
          (inits[i].pc # "done" /\ inits'[i].why \in {"setup", "login"})
            => /\ inits'[i].pc = "done"
               /\ inits'[i].ret = "disabled"
               /\ ~enabled'
               /\ \A limit \in Limits : getSummary(limit)' = Disabled
     /\ (~enabled /\ enabled')
          => \E h \in HandlerIds : handlers[h].pc = "idle" /\ handlers'[h].pc # "idle"
    ]_vars

\* C4 witness: an init has returned disabled because its login was rejected,
\* after another init had returned enabled and the flag had been set, and the
\* flag is false.
C4_Witness ==
  /\ \E i \in InitIds : inits[i].why = "login"
  /\ \E j \in InitIds : inits[j].ret = "enabled"
  /\ \E h \in HandlerIds : handlers[h].pc = "done"
  /\ afterFail
  /\ ~enabled

\* C5: an init called without a token or without a guild id returns
\* {enabled:false} in its first step, creates no connection, begins no login,
\* and leaves client, enabled and the cache as they were.
C5_MissingConfigTouchesNothing ==
  [][\A i \in InitIds :
       (inits[i].pc = "idle" /\ inits'[i].why = "missing")
         => /\ inits'[i].pc = "done"
            /\ inits'[i].ret = "disabled"
            /\ conns' = conns
            /\ client' = client
            /\ enabled' = enabled
            /\ onlineMembers' = onlineMembers]_vars

\* C5 witness: a missing-configuration init has returned, called after an
\* earlier init had created the connection client refers to, with the enabled
\* flag set and a non-empty cache there to be left alone.
C5_Witness ==
  /\ \E i, j \in InitIds :
       j < i /\ inits[i].why = "missing" /\ conns[j].st = "open" /\ client = j
  /\ enabled
  /\ onlineMembers # <<>>

\* C6 (as claimed): after a stop() that found a client has returned, and until
\* init is called again, the cache is empty and enabled is false.
C6_StoppedStaysCleared ==
  afterStop = "torn" => (onlineMembers = <<>> /\ ~enabled)

\* C7 (as claimed): no connection has its destroy() invoked more than once.
C7_DestroyAtMostOnce ==
  \A c \in InitIds : conns[c].destroys <= 1

\* C8: a stop() called while client is null returns in that same step, and
\* client, enabled, the cache and every connection are unchanged by it.
C8_StopWithoutClientIsNoOp ==
  [][\A s \in StopIds :
       (stops[s].pc = "idle" /\ stops'[s].pc # "idle" /\ client = Null)
         => /\ stops'[s].pc = "done"
            /\ client' = client
            /\ enabled' = enabled
            /\ onlineMembers' = onlineMembers
            /\ conns' = conns]_vars

\* C8 witness: a stop() has returned without finding a client, after an
\* earlier stop completed and a later init returned for missing configuration,
\* with a cache that was not empty (a ready handler seeded it after the first
\* stop).
C8_Witness ==
  /\ afterStop = "idle"
  /\ client = Null
  /\ \E i \in InitIds : inits[i].why = "missing"
  /\ \E c \in InitIds : conns[c].st = "destroyed"
  /\ onlineMembers # <<>>

\* C9: an init waiting in its race of the ready signal and the timer
\* eventually returns.
C9_RaceEnds ==
  \A i \in InitIds : (inits[i].pc = "race") ~> (inits[i].pc = "done")

\* the two caches hold the same ids with the same snapshots
SameMapping(a, b) ==
  /\ Len(a) = Len(b)
  /\ MapKeys(a) = MapKeys(b)
  /\ \A k \in MapKeys(a) : MapGet(a, k) = MapGet(b, k)

\* C10 (as claimed): replaying a sequence of presence-change and removal
\* events a second time leaves the same id-to-snapshot mapping and the same
\* members, in the same order, from getSummary for every limit.
C10_ReplaySameStateAndOrder ==
  replay.pass = 3
    => /\ SameMapping(onlineMembers, replay.first)
       /\ \A limit \in 0..MaxReplayId :
            Slice(MapValues(onlineMembers), 0, limit)
              = Slice(MapValues(replay.first), 0, limit)

\* C10 (amended): replaying the sequence a second time leaves the same
\* id-to-snapshot mapping (the same ids, each with the same snapshot, and the
\* same count); the order of the members may differ.
C10_ReplaySameMapping ==
  replay.pass = 3 => SameMapping(onlineMembers, replay.first)

\* C10 witness: a replay has ended with two members cached in another order
\* than after the first pass.
C10_Witness ==
  /\ replay.pass = 3
  /\ Len(onlineMembers) = 2
  /\ onlineMembers # replay.first

\* C9 witness: an init has returned by the timer although no ready
\* notification was ever delivered.
C9_Witness ==
  /\ \E i \in InitIds : inits[i].why = "timeout"
  /\ \A h \in HandlerIds : handlers[h].pc = "idle"

\* ------------------------------------------- claims on the event handlers
\* what the event carries for the snapshot: newPresence.member?.user?.username
\* or newPresence.user?.username, and the avatar of the member or of the user
CarriedUsername(ev) == IF ev.member = "named" THEN "member-name" ELSE "user-name"
CarriedAvatar(ev) ==
  IF ev.member # "none" THEN "member-png64"
  ELSE IF ev.avatar = "nomethod" THEN Undefined ELSE "user-default"

\* the entries of cache other than the one of user u, in order
Others(cache, u) == SelectSeq(cache, LAMBDA e : e.k # u)
\* how many entries cache holds for user u
EntriesOf(cache, u) == Cardinality({i \in 1..Len(cache) : cache[i].k = u})

\* C11: a presence-change or membership-removal event delivered a second time
\* right after its first delivery leaves the cache (entries, contents, order)
\* as the first delivery left it.
C11_SecondDeliveryChangesNothing ==
  [][(trail'.op.kind \in {"presence", "remove"} /\ trail'.op = trail.op)
       => onlineMembers' = onlineMembers]_vars

\* C11 witness: a classified presence event has been delivered twice in a row
\* about the member that is first of two in the cache.
C11_Witness ==
  /\ trail.op.kind = "presence"
  /\ trail.times = 2
  /\ trail.op.ev.status \in UpdateStatuses
  /\ Len(onlineMembers) = 2
  /\ onlineMembers[1].k = trail.op.ev.user

\* C12: a presence event with a classified status that the handler processes
\* (its fields read without error; C18 is about the others), for a user that
\* is cached, overwrites: the size is unchanged, there is exactly one entry
\* for the user, it holds the event's status, username and avatar, and every
\* other entry is unchanged and where it was.
C12_ClassifiedEventOverwrites ==
  [][\A u \in ReplayIds :
       (/\ trail'.op.kind = "presence"
        /\ trail'.op.ev.user = u
        /\ trail'.op.ev.status \in {"online", "idle", "dnd"}
        /\ ~DroppedEvent(trail'.op.ev)
        /\ MapHas(onlineMembers, u))
         => /\ Len(onlineMembers') = Len(onlineMembers)
            /\ EntriesOf(onlineMembers', u) = 1
            /\ MapGet(onlineMembers', u) =
                 Snapshot(u, CarriedUsername(trail'.op.ev), CarriedAvatar(trail'.op.ev),
                          trail'.op.ev.status)
            /\ \A i \in 1..Len(onlineMembers) :
                 onlineMembers[i].k # u => onlineMembers'[i] = onlineMembers[i]]_vars

\* C12 witness: after the seeding pass stored one member, an idle event has
\* overwritten the other, which is the first of the two in the cache.
C12_Witness ==
  /\ trail.op.kind = "presence"
  /\ trail.times = 1
  /\ trail.op.ev.status = "idle"
  /\ ~DroppedEvent(trail.op.ev)
  /\ \E h \in HandlerIds : handlers[h].pc = "done"
  /\ Len(onlineMembers) = 2
  /\ onlineMembers[1].k = trail.op.ev.user
  /\ onlineMembers[1].v.status = "idle"
  /\ onlineMembers[2].v.avatar = "user-png64"

\* C13: a presence event with a status that is not classified (offline,
\* invisible, missing, empty or another string) about a cached member removes
\* exactly that member: the size drops by 1 and the other entries are
\* unchanged, in their order.
C13_UnclassifiedEventRemoves ==
  [][\A u \in ReplayIds :
       (/\ trail'.op.kind = "presence"
        /\ trail'.op.ev.user = u
        /\ trail'.op.ev.status \notin {"online", "idle", "dnd"}
        /\ MapHas(onlineMembers, u))
         => /\ Len(onlineMembers') = Len(onlineMembers) - 1
            /\ ~MapHas(onlineMembers', u)
            /\ onlineMembers' = Others(onlineMembers, u)]_vars

\* C13 witness: a presence event with a status the code does not name has
\* just removed a member, and another member is still cached.
C13_Witness ==
  /\ trail.op.kind = "presence"
  /\ trail.op.ev.status = "streaming"
  /\ trail.times = 1
  /\ trail.latest[trail.op.ev.user] = "unclassified"
  /\ Len(onlineMembers) = 1
  /\ onlineMembers[1].k # trail.op.ev.user

\* C14: a membership-removal event removes the entry of member.id when it is
\* cached, whatever its status, and leaves the other entries unchanged; for
\* an id that is not cached the cache is unchanged.
C14_RemovalDeletesOrDoesNothing ==
  [][\A u \in ReplayIds :
       (trail'.op.kind = "remove" /\ trail'.op.ev.user = u)
         => /\ ~MapHas(onlineMembers', u)
            /\ onlineMembers' = Others(onlineMembers, u)
            /\ MapHas(onlineMembers, u) => Len(onlineMembers') = Len(onlineMembers) - 1
            /\ ~MapHas(onlineMembers, u) => onlineMembers' = onlineMembers]_vars

\* C14 witness: a removal has been delivered for an id that was not cached
\* (it was removed just before), with another member cached.
C14_Witness ==
  /\ trail.op.kind = "remove"
  /\ trail.times = 2
  /\ Len(onlineMembers) = 1
  /\ onlineMembers[1].k # trail.op.ev.user

\* C15: for every status value, and a user that is not cached, the seeding
\* pass on a record with that status and the presence handler on an event with
\* that status both cache the user or both do not, and they cache it exactly
\* when the status is online, idle or dnd; a record without presence is not
\* cached.
C15_SameClassification ==
  \A u \in ReplayIds :
    LET without == MapDelete(onlineMembers, u) IN
      /\ \A s \in StatusValues :
           LET seeded == SeedMember(without, GuildMember(u, s, TRUE, "ok"))
               updated == presenceUpdate(without, PresenceEvent(u, s, "none", "ok"))
           IN /\ MapHas(seeded, u) <=> MapHas(updated, u)
              /\ MapHas(seeded, u) <=> s \in {"online", "idle", "dnd"}
              /\ MapHas(seeded, u) => MapGet(seeded, u).status = s
              /\ MapHas(updated, u) => MapGet(updated, u).status = s
      /\ ~MapHas(SeedMember(without, GuildMember(u, NoPresence, TRUE, "ok")), u)

\* C15 witness: the cache holds one member stored by the seeding pass and one
\* stored by the presence handler.
C15_Witness ==
  /\ Len(onlineMembers) = 2
  /\ \E i, j \in 1..2 :
       /\ onlineMembers[i].v.avatar = "user-png64"
       /\ onlineMembers[j].v.avatar = "member-png64"

\* C18: a presence event that is dropped (its avatar lookup throws, or it has
\* no user) leaves the cache exactly as it was; and the event or removal
\* delivered next has its usual effect: a processed classified event leaves
\* its user cached with its status, an unclassified one or a removal leaves
\* its user out.
C18_DroppedEventLeavesCache ==
  [][/\ (trail'.op.kind = "presence" /\ DroppedEvent(trail'.op.ev))
          => onlineMembers' = onlineMembers
     /\ (/\ trail.op.kind = "presence"
         /\ DroppedEvent(trail.op.ev)
         /\ trail'.op.kind \in {"presence", "remove"}
         /\ ~DroppedEvent(trail'.op.ev))
          => LET ev == trail'.op.ev IN
               IF trail'.op.kind = "presence" /\ ev.status \in {"online", "idle", "dnd"}
                 THEN /\ MapHas(onlineMembers', ev.user)
                      /\ MapGet(onlineMembers', ev.user).status = ev.status
                 ELSE ~MapHas(onlineMembers', ev.user)
    ]_vars

\* C18 witness: the last event, about a member cached as dnd, carried the
\* status online and was dropped because its avatar lookup threw.
C18_Witness ==
  /\ trail.op.kind = "presence"
  /\ trail.op.ev.avatar = "throws"
  /\ trail.op.ev.status = "online"
  /\ MapHas(onlineMembers, trail.op.ev.user)
  /\ MapGet(onlineMembers, trail.op.ev.user).status = "dnd"

\* C16: in every reachable state, every cache entry has a status among
\* online, idle and dnd, is stored under the key equal to its own id field,
\* and that id is the id of a user (never the missing-user value).
C16_EntriesAreClassifiedAndKeyedById ==
  \A i \in 1..Len(onlineMembers) :
    /\ onlineMembers[i].v.status \in {"online", "idle", "dnd"}
    /\ onlineMembers[i].k = onlineMembers[i].v.id
    /\ onlineMembers[i].v.id \in Ids
    /\ onlineMembers[i].v.id # NoUser

\* C16 witness: a member is cached after a stop() had torn a connection down
\* and a ready handler has completed.
C16_Witness ==
  /\ onlineMembers # <<>>
  /\ \E c \in InitIds : conns[c].st = "destroyed"
  /\ \E h \in HandlerIds : handlers[h].pc = "done"
  /\ \E s \in StopIds : stops[s].pc = "done"

\* C17 (as claimed): an id is a key of the cache iff the most recent processed
\* seeding record or presence event about it carried a classified status and
\* no membership removal for it was processed after.
C17_KeysAreLatestClassified ==
  \A u \in ReplayIds : MapHas(onlineMembers, u) <=> trail.latest[u] = "classified"

\* C20 (as claimed): for one init (one connection), the ready handler, which
\* seeds and then emits the seeding-complete signal, runs at most once,
\* however many ready notifications the connection delivers.
C20_SeedsAndSignalsOncePerInit ==
  \A c \in InitIds :
    Cardinality({h \in HandlerIds : handlers[h].pc # "idle" /\ handlers[h].conn = c}) <= 1

\* the snapshots one single upsert writes: by the presence handler for an
\* event it processes, or by the seeding pass for a record it stores
WholeSnapshots ==
  {Snapshot(ev.user, CarriedUsername(ev), CarriedAvatar(ev), ev.status) :
     ev \in {e \in DeliveredEvents : ~DroppedEvent(e) /\ e.status \in UpdateStatuses}}
  \cup {Snapshot(u, "user-name", "user-png64", s) : u \in ReplayIds, s \in SeedStatuses}

\* C19: a getSummary made at any point between the runs of the handlers and of
\* the seeding pass changes nothing, and its result is the cache of that one
\* point: when enabled, count is the number of entries, members are its first
\* limit values, each of them is the whole snapshot of one upsert (the member
\* of the event processed last carries exactly that event's fields); when not
\* enabled it is the disabled result.
C19_SummaryIsTheCacheAtOnePoint ==
  [][(summary.via = "none" /\ summary'.via = "call")
       => /\ onlineMembers' = onlineMembers
          /\ trail' = trail
          /\ IF enabled
               THEN /\ summary'.res.enabled
                    /\ summary'.res.count = Len(onlineMembers)
                    /\ Len(summary'.res.members) = Min(summary'.limit, Len(onlineMembers))
                    /\ \A i \in 1..Len(summary'.res.members) :
                         /\ summary'.res.members[i] = onlineMembers[i].v
                         /\ summary'.res.members[i] \in WholeSnapshots
                         /\ (/\ trail.op.kind = "presence"
                             /\ ~DroppedEvent(trail.op.ev)
                             /\ trail.op.ev.user = onlineMembers[i].k)
                              => summary'.res.members[i] =
                                   Snapshot(trail.op.ev.user, CarriedUsername(trail.op.ev),
                                            CarriedAvatar(trail.op.ev), trail.op.ev.status)
               ELSE summary'.res = Disabled
    ]_vars

\* C19 witness: a caller has queried, with limit 1, a cache of two members
\* right after a presence event overwrote the first of them, while the ready
\* handler was between its awaits.
C19_Witness ==
  /\ summary.via = "call"
  /\ summary.limit = 1
  /\ summary.res.enabled
  /\ summary.res.count = 2
  /\ Len(summary.res.members) = 1
  /\ handlers[1].pc = "fetchGuild"
  /\ trail.op.kind = "presence"
  /\ ~DroppedEvent(trail.op.ev)
  /\ trail.op.ev.user = summary.res.members[1].id
  /\ trail.op.ev.status = "dnd"
  /\ summary.res.members[1].status = "dnd"

\* ------------------------------------------- claims on the ready handler
\* C21: every connection that can deliver events (login begun, not failed,
\* not torn down) has its presence-change, membership-removal and error
\* handlers registered, so an event delivered before the ready signal, or
\* while seeding awaits its fetches, runs its handler and is not lost.
C21_HandlersRegisteredBeforeLogin ==
  \A c \in InitIds : Live(c) => conns[c].on

\* C21 witness: a member is cached by an event delivered while the login was
\* still awaited, before any ready notification.
C21_Witness ==
  /\ \E i \in InitIds : inits[i].pc = "login" /\ conns[i].st = "connecting" /\ client = i
  /\ \A j \in InitIds : conns[j].st \in {"none", "connecting"}
  /\ \A h \in HandlerIds : handlers[h].pc = "idle"
  /\ onlineMembers # <<>>

\* C22: in a seeding pass, a record whose processing raises is skipped and
\* leaves the entry of its user as it was; every other record with a
\* classified status is stored with that status, wherever it stands in the
\* list; and the pass ends with the seeding-complete signal (the handler is
\* done and the once-listeners of the emitter have been called).
C22_SeedingSkipsBadRecords ==
  [][(trail'.op.kind = "seed" /\ handlers[1].pc = "fetchGuild")
       => LET members == trail'.op.members IN
            /\ \A i \in 1..Len(members) :
                 LET m == members[i] IN
                   IF m.presence \in {"online", "idle", "dnd"} /\ ~SkippedRecord(m)
                     THEN /\ MapHas(onlineMembers', m.id)
                          /\ MapGet(onlineMembers', m.id).status = m.presence
                     ELSE /\ MapHas(onlineMembers', m.id) <=> MapHas(onlineMembers, m.id)
                          /\ MapHas(onlineMembers, m.id)
                               => MapGet(onlineMembers', m.id) = MapGet(onlineMembers, m.id)
            /\ handlers'[1].pc = "done"
            /\ emitter' = {}
    ]_vars

\* C22 witness: the seeding pass has read a record that raises (no user, or
\* its avatar lookup throws) and then an online member, and the second is
\* cached.
C22_Witness ==
  /\ trail.op.kind = "seed"
  /\ Len(trail.op.members) = 2
  /\ SkippedRecord(trail.op.members[1])
  /\ trail.op.members[2].presence = "online"
  /\ MapHas(onlineMembers, trail.op.members[2].id)
  /\ ~MapHas(onlineMembers, trail.op.members[1].id)
  /\ handlers[1].pc = "done"
  /\ emitter = {}

\* C23: with the default threshold of 2000, the seeding pass is preceded by the
\* full member fetch exactly when the guild's member count is strictly below
\* the threshold (a guild that reports no member count, 0 here, is not fetched
\* for); at or above it the pass runs in the step in which the guild fetch
\* resolved, on the records the connection holds.
C23_BulkFetchIffBelowThreshold ==
  [][/\ (handlers[1].pc = "fetchGuild" /\ trail'.guild.fetched)
          => /\ handlers'[1].pc = "fetchMembers"
                  <=> (/\ trail'.guild.memberCount # 0
                       /\ trail'.guild.memberCount < 2000)
             /\ handlers'[1].pc # "fetchMembers"
                  => (handlers'[1].pc = "done" /\ trail'.op.kind = "seed")
     /\ trail'.op.kind = "seed"
          => (handlers[1].pc = "fetchMembers"
                <=> (/\ trail'.guild.memberCount # 0
                     /\ trail'.guild.memberCount < 2000))
    ]_vars

\* C23 witness: seeding has run without the member fetch for a guild of
\* exactly 2000 members.
C23_Witness ==
  /\ trail.op.kind = "seed"
  /\ trail.guild.fetched
  /\ trail.guild.memberCount = 2000
  /\ handlers[1].pc = "done"
  /\ onlineMembers # <<>>

\* C24 (as claimed): at any time at most one connection exists that has begun
\* its login and has not failed or been torn down, and it is the one the
\* module's client refers to (so that a later stop() destroys it).
C24_OneLiveConnectionReferenced ==
  /\ Cardinality({c \in InitIds : Live(c)}) <= 1
  /\ \A c \in InitIds : Live(c) => client = c

\* ------------------------------------------------- claims on /api/blogs
\* C25 (as claimed, already for the runs in which no read of the blog file
\* fails): every post whose create request was answered 200 is in the blog
\* file unless a delete request for its id was answered 200.
C25_NoSuccessfulCreateIsLost ==
  (\A q \in ReqIds : blogs.reqs[q].readOk)
    => \A r \in ReqIds :
         (blogs.reqs[r].kind = "create" /\ blogs.reqs[r].status = 200)
           => \/ \E i \in 1..Len(blogs.file) : blogs.file[i].id = r
              \/ \E d \in ReqIds :
                   /\ blogs.reqs[d].kind = "delete"
                   /\ blogs.reqs[d].target = r
                   /\ blogs.reqs[d].status = 200
====
